---- MODULE Spec2Model ----
(***************************************************************************)
(* Model of src/libpanic_unwind/seh.rs: the Windows SEH back end of the    *)
(* panic runtime.  Threads call panic(), which flattens the boxed payload  *)
(* into two 64-bit words on its own stack frame, links the C++ exception   *)
(* descriptor statics with five atomic stores and calls                    *)
(* _CxxThrowException; the catch site recovers the payload with cleanup(). *)
(*                                                                         *)
(* Machine integers wider than TLC's integers are kept at their real       *)
(* width as little-endian sequences of 16-bit limbs: a u32 (and an x86     *)
(* pointer) is 2 limbs, a u64 (and an x86_64 pointer) is 4 limbs.          *)
(***************************************************************************)
EXTENDS Integers, Sequences, FiniteSets, TLC

\* ------------------------------------------------------------------ bounds
NumThreads == 2
MaxThrows == 2

Threads == 1..NumThreads

\* "nothing yet" for a box, for the arguments of a call and for a returned
\* value
NoBox == [data |-> << >>, vtable |-> << >>]

NoArgs == [pExceptionObject |-> [frame |-> 0, local |-> ""], pThrowInfo |-> << >>]

NoValue == << >>

\* ------------------------------------------------- fixed-width arithmetic
LimbBase == 2^16

U32Limbs == 2
U64Limbs == 4

\* `x as uN` between unsigned integers / pointers: zero-extend or truncate.
Cast(w, n) == [i \in 1..n |-> IF i <= Len(w) THEN w[i] ELSE 0]

Zero(n) == [i \in 1..n |-> 0]

\* limbs i.. of a + b, given the carry c into limb i
RECURSIVE AddFrom(_, _, _, _)
AddFrom(a, b, i, c) ==
    IF i > Len(a) THEN << >>
    ELSE LET sum == a[i] + b[i] + c
         IN <<sum % LimbBase>> \o AddFrom(a, b, i + 1, sum \div LimbBase)

\* wrapping addition of two words of the same width
WAdd(a, b) == AddFrom(a, b, 1, 0)

\* limbs i.. of a - b, given the borrow c out of limb i
RECURSIVE SubFrom(_, _, _, _)
SubFrom(a, b, i, c) ==
    IF i > Len(a) THEN << >>
    ELSE LET diff == a[i] - b[i] - c
         IN <<(diff + LimbBase) % LimbBase>> \o
            SubFrom(a, b, i + 1, IF diff < 0 THEN 1 ELSE 0)

\* wrapping subtraction of two words of the same width
WSub(a, b) == SubFrom(a, b, 1, 0)

\* ------------------------------------------------------------ the targets
Targets == {"x86", "x86_64"}

\* width of a machine pointer / usize, in limbs
PtrLimbs(tg) == IF tg = "x86" THEN U32Limbs ELSE U64Limbs

\* imp::OFFSET
OFFSET(tg) == IF tg = "x86" THEN 4 ELSE 8

\* imp::NAME1, imp::NAME2 (bytes)
NAME1(tg) ==
    IF tg = "x86" THEN <<46, 80, 65, 95, 75, 0, 0>>
    ELSE <<46, 80, 69, 65, 95, 75, 0>>

NAME2(tg) ==
    IF tg = "x86" THEN <<46, 80, 65, 88, 0, 0, 0>>
    ELSE <<46, 80, 69, 65, 88, 0, 0>>

\* ------------------------------------------------------ the loaded image
\* Where the module is loaded and where the linker put the statics.  The
\* image base is a pointer; the statics lie inside the image at relative
\* virtual addresses, which the PE format keeps in 32 bits.
Statics ==
    {"THROW_INFO", "CATCHABLE_TYPE_ARRAY", "CATCHABLE_TYPE1",
     "CATCHABLE_TYPE2", "TYPE_DESCRIPTOR1", "TYPE_DESCRIPTOR2"}

Images(tg) ==
    IF tg = "x86" THEN
        {
          \* base 0xB0000000 (large-address-aware), statics straddling
          \* RVA 0x00030000: addresses above 2^31
          [ImageBase |-> <<0, 45056>>,
           rva |-> [THROW_INFO |-> <<65500, 2>>,
                    CATCHABLE_TYPE_ARRAY |-> <<65516, 2>>,
                    CATCHABLE_TYPE1 |-> <<65528, 2>>,
                    CATCHABLE_TYPE2 |-> <<20, 3>>,
                    TYPE_DESCRIPTOR1 |-> <<48, 3>>,
                    TYPE_DESCRIPTOR2 |-> <<64, 3>>]] }
    ELSE
        { \* base 0x0000000140000000, statics from RVA 0x00025000
          [ImageBase |-> <<0, 16384, 1, 0>>,
           rva |-> [THROW_INFO |-> <<20480, 2>>,
                    CATCHABLE_TYPE_ARRAY |-> <<20496, 2>>,
                    CATCHABLE_TYPE1 |-> <<20508, 2>>,
                    CATCHABLE_TYPE2 |-> <<20536, 2>>,
                    TYPE_DESCRIPTOR1 |-> <<20564, 2>>,
                    TYPE_DESCRIPTOR2 |-> <<20588, 2>>]],
          \* base 0x00007FF6FFFF0000 (ASLR), statics near RVA 0x7FFE0000:
          \* base + RVA carries into the upper half of the address
          [ImageBase |-> <<0, 65535, 32758, 0>>,
           rva |-> [THROW_INFO |-> <<65500, 32765>>,
                    CATCHABLE_TYPE_ARRAY |-> <<65516, 32765>>,
                    CATCHABLE_TYPE1 |-> <<65528, 32765>>,
                    CATCHABLE_TYPE2 |-> <<20, 32766>>,
                    TYPE_DESCRIPTOR1 |-> <<48, 32766>>,
                    TYPE_DESCRIPTOR2 |-> <<72, 32766>>]] }

\* `&X as *const _` : the address of a static in the loaded image
AddrOf(tg, img, name) ==
    WAdd(img.ImageBase, Cast(img.rva[name], PtrLimbs(tg)))

\* ------------------------------------------------ Pointer-Encoding Policy
\* ptr! that forgets to subtract __ImageBase on x86_64
ptrNoBase(tg, img, e) ==
    IF tg = "x86" THEN Cast(e, PtrLimbs(tg))
    ELSE Cast(Cast(e, U64Limbs), U32Limbs)

\* imp::ptr! applied to a non-zero expression: the raw address on x86,
\* the 32-bit offset from __ImageBase on x86_64
ptr(tg, img, e) ==
    IF tg = "x86" THEN Cast(e, PtrLimbs(tg))
    ELSE Cast(WSub(Cast(e, U64Limbs), Cast(img.ImageBase, U64Limbs)), U32Limbs)

\* ptr!(0)
ptr0 == Zero(U32Limbs)

\* How the C++ runtime follows a stored reference: a pointer on 32-bit,
\* __ImageBase plus the 32-bit offset on 64-bit
Resolve(tg, img, v) ==
    IF tg = "x86" THEN Cast(v, PtrLimbs(tg))
    ELSE WAdd(img.ImageBase, Cast(v, U64Limbs))

\* ------------------------------------------------ Exception Descriptor Set
_PMD == [mdisp |-> 0, pdisp |-> -1, vdisp |-> 0]

InitStatics(tg) ==
    [THROW_INFO |->
        [attribues |-> 0,
         pnfnUnwind |-> ptr0,
         pForwardCompat |-> ptr0,
         pCatchableTypeArray |-> ptr0],
     CATCHABLE_TYPE_ARRAY |->
        [nCatchableTypes |-> 2,
         arrayOfCatchableTypes |-> <<ptr0, ptr0>>],
     CATCHABLE_TYPE1 |->
        [properties |-> 1,
         pType |-> ptr0,
         thisDisplacement |-> _PMD,
         sizeOrOffset |-> OFFSET(tg),
         copy_function |-> ptr0],
     CATCHABLE_TYPE2 |->
        [properties |-> 1,
         pType |-> ptr0,
         thisDisplacement |-> _PMD,
         sizeOrOffset |-> OFFSET(tg),
         copy_function |-> ptr0],
     TYPE_DESCRIPTOR1 |->
        [pVFTable |-> "TYPE_INFO_VTABLE",
         spare |-> Zero(PtrLimbs(tg)),
         name |-> NAME1(tg)],
     TYPE_DESCRIPTOR2 |->
        [pVFTable |-> "TYPE_INFO_VTABLE",
         spare |-> Zero(PtrLimbs(tg)),
         name |-> NAME2(tg)]]

\* ---------------------------------------------------------- Payload Codec
\* Box<dyn Any + Send> values a caller may throw: raw::TraitObject pairs of
\* pointer width
Payloads(tg) ==
    IF tg = "x86" THEN
        { [data |-> <<4656, 165>>, vtable |-> <<61608, 69>>],
          [data |-> <<16, 65534>>, vtable |-> <<4112, 45059>>] }
    ELSE
        { [data |-> <<54752, 46020, 418, 0>>,
           vtable |-> <<6904, 16387, 1, 0>>],
          [data |-> <<16, 0, 32768, 65535>>,
           vtable |-> <<33056, 65535, 32758, 0>>] }

\* the flattening done through 32-bit words: `as u32 as u64`
FlattenTrunc32(P) ==
    <<Cast(Cast(P.data, U32Limbs), U64Limbs),
      Cast(Cast(P.vtable, U32Limbs), U64Limbs)>>

\* let ptrs = [ptrs.data as u64, ptrs.vtable as u64]
Flatten(P) == <<Cast(P.data, U64Limbs), Cast(P.vtable, U64Limbs)>>

\* payload()
payload0 == <<Zero(U64Limbs), Zero(U64Limbs)>>

\* cleanup() with the two words taken in the wrong order
cleanupSwapped(tg, pl) ==
    [data |-> Cast(pl[2], PtrLimbs(tg)), vtable |-> Cast(pl[1], PtrLimbs(tg))]

\* cleanup(payload)
cleanup(tg, pl) ==
    [data |-> Cast(pl[1], PtrLimbs(tg)), vtable |-> Cast(pl[2], PtrLimbs(tg))]

\* i32::max_value() in place of u32::max_value()
i32_max_value ==
    [i \in 1..U32Limbs |-> IF i = U32Limbs THEN LimbBase \div 2 - 1
                           ELSE LimbBase - 1]

\* u32::max_value()
u32_max_value == [i \in 1..U32Limbs |-> LimbBase - 1]

\* --------------------------------------------------------------- the state
VARIABLES
    target,       \* target_arch the crate was built for
    image,        \* where the module is loaded and its statics lie
    statics,      \* THROW_INFO, CATCHABLE_TYPE_ARRAY, CATCHABLE_TYPE1/2, ...
    nstores,      \* number of atomic stores executed on the statics so far
    initialized,  \* some panic() call has executed all of its atomic stores
    aborted,      \* the process has been aborted / terminated
    pc,           \* per thread: position in the throw/catch cycle
    throws,       \* number of panic() calls made so far, by all threads
    handler,      \* per thread: a catching frame is on the stack
    data,         \* per thread: the `data` argument of panic()
    mem,          \* stack memory of the live panic() frames
    stores_done,  \* per thread: atomic stores executed by this panic() call
    raised,       \* per thread: arguments _CxxThrowException was called with
    ret,          \* per thread: value panic() returned
    cleanups,     \* per thread: runs of the intervening frame's cleanup
    decodes,      \* per thread: calls of cleanup() for this throw
    payload,      \* per thread: the catch site's payload slot
    caught        \* per thread: value handed to the handler

vars ==
    <<target, image, statics, nstores, initialized, aborted, pc, throws, handler, data,
      mem, stores_done, raised, ret, cleanups, decodes, payload, caught>>

\* `ptrs` kept in one buffer shared by all threads
PtrsLocShared(t) == [frame |-> 0, local |-> "ptrs"]

\* locals of thread t's panic() frame
PtrsLoc(t) == [frame |-> t, local |-> "ptrs"]

PtrsPtrLoc(t) == [frame |-> t, local |-> "ptrs_ptr"]

\* Stores with the last store forgotten
StoresMissingLast ==
    << [obj |-> "THROW_INFO", field |-> "pCatchableTypeArray", idx |-> 0,
        src |-> "CATCHABLE_TYPE_ARRAY"],
       [obj |-> "CATCHABLE_TYPE_ARRAY", field |-> "arrayOfCatchableTypes",
        idx |-> 1, src |-> "CATCHABLE_TYPE1"],
       [obj |-> "CATCHABLE_TYPE_ARRAY", field |-> "arrayOfCatchableTypes",
        idx |-> 2, src |-> "CATCHABLE_TYPE2"],
       [obj |-> "CATCHABLE_TYPE1", field |-> "pType", idx |-> 0,
        src |-> "TYPE_DESCRIPTOR1"] >>

\* Stores with the third store aimed at array entry 0 again
StoresSameEntry ==
    << [obj |-> "THROW_INFO", field |-> "pCatchableTypeArray", idx |-> 0,
        src |-> "CATCHABLE_TYPE_ARRAY"],
       [obj |-> "CATCHABLE_TYPE_ARRAY", field |-> "arrayOfCatchableTypes",
        idx |-> 1, src |-> "CATCHABLE_TYPE1"],
       [obj |-> "CATCHABLE_TYPE_ARRAY", field |-> "arrayOfCatchableTypes",
        idx |-> 1, src |-> "CATCHABLE_TYPE2"],
       [obj |-> "CATCHABLE_TYPE1", field |-> "pType", idx |-> 0,
        src |-> "TYPE_DESCRIPTOR1"],
       [obj |-> "CATCHABLE_TYPE2", field |-> "pType", idx |-> 0,
        src |-> "TYPE_DESCRIPTOR2"] >>

\* Stores with the third store linking array entry 1 to CATCHABLE_TYPE1
StoresWrongSrc ==
    << [obj |-> "THROW_INFO", field |-> "pCatchableTypeArray", idx |-> 0,
        src |-> "CATCHABLE_TYPE_ARRAY"],
       [obj |-> "CATCHABLE_TYPE_ARRAY", field |-> "arrayOfCatchableTypes",
        idx |-> 1, src |-> "CATCHABLE_TYPE1"],
       [obj |-> "CATCHABLE_TYPE_ARRAY", field |-> "arrayOfCatchableTypes",
        idx |-> 2, src |-> "CATCHABLE_TYPE1"],
       [obj |-> "CATCHABLE_TYPE1", field |-> "pType", idx |-> 0,
        src |-> "TYPE_DESCRIPTOR1"],
       [obj |-> "CATCHABLE_TYPE2", field |-> "pType", idx |-> 0,
        src |-> "TYPE_DESCRIPTOR2"] >>

\* Stores with the first store aimed at THROW_INFO.pForwardCompat
StoresWrongDst ==
    << [obj |-> "THROW_INFO", field |-> "pForwardCompat", idx |-> 0,
        src |-> "CATCHABLE_TYPE_ARRAY"],
       [obj |-> "CATCHABLE_TYPE_ARRAY", field |-> "arrayOfCatchableTypes",
        idx |-> 1, src |-> "CATCHABLE_TYPE1"],
       [obj |-> "CATCHABLE_TYPE_ARRAY", field |-> "arrayOfCatchableTypes",
        idx |-> 2, src |-> "CATCHABLE_TYPE2"],
       [obj |-> "CATCHABLE_TYPE1", field |-> "pType", idx |-> 0,
        src |-> "TYPE_DESCRIPTOR1"],
       [obj |-> "CATCHABLE_TYPE2", field |-> "pType", idx |-> 0,
        src |-> "TYPE_DESCRIPTOR2"] >>

\* the five atomic_store calls of panic(), in program order
Stores ==
    << [obj |-> "THROW_INFO", field |-> "pCatchableTypeArray", idx |-> 0,
        src |-> "CATCHABLE_TYPE_ARRAY"],
       [obj |-> "CATCHABLE_TYPE_ARRAY", field |-> "arrayOfCatchableTypes",
        idx |-> 1, src |-> "CATCHABLE_TYPE1"],
       [obj |-> "CATCHABLE_TYPE_ARRAY", field |-> "arrayOfCatchableTypes",
        idx |-> 2, src |-> "CATCHABLE_TYPE2"],
       [obj |-> "CATCHABLE_TYPE1", field |-> "pType", idx |-> 0,
        src |-> "TYPE_DESCRIPTOR1"],
       [obj |-> "CATCHABLE_TYPE2", field |-> "pType", idx |-> 0,
        src |-> "TYPE_DESCRIPTOR2"] >>

\* atomic_store(&mut obj.field[idx] as *mut _ as *mut u32, v)
StoreAt(s, d, v) ==
    IF d.idx = 0 THEN [s EXCEPT ![d.obj][d.field] = v]
    ELSE [s EXCEPT ![d.obj][d.field][d.idx] = v]

\* the value a reference field of the statics holds
FieldOf(s, d) ==
    IF d.idx = 0 THEN s[d.obj][d.field] ELSE s[d.obj][d.field][d.idx]

\* the call made with `ptrs.as_mut_ptr()` itself as the exception object
RaiseArgsDirect(t) ==
    [pExceptionObject |-> PtrsLoc(t),
     pThrowInfo |-> AddrOf(target, image, "THROW_INFO")]

\* arguments of the c::_CxxThrowException call
RaiseArgs(t) ==
    [pExceptionObject |-> PtrsPtrLoc(t),
     pThrowInfo |-> AddrOf(target, image, "THROW_INFO")]

Init ==
    /\ target \in Targets
    /\ image \in Images(target)
    /\ statics = InitStatics(target)
    /\ nstores = 0
    /\ initialized = FALSE
    /\ aborted = FALSE
    /\ pc = [t \in Threads |-> "idle"]
    /\ throws = 0
    /\ handler = [t \in Threads |-> FALSE]
    /\ data = [t \in Threads |-> NoBox]
    /\ mem = [l \in {} |-> NoValue]
    /\ stores_done = [t \in Threads |-> 0]
    /\ raised = [t \in Threads |-> NoArgs]
    /\ ret = [t \in Threads |-> NoValue]
    /\ cleanups = [t \in Threads |-> 0]
    /\ decodes = [t \in Threads |-> 0]
    /\ payload = [t \in Threads |-> payload0]
    /\ caught = [t \in Threads |-> NoBox]

\* A thread raises an error: the runtime calls panic(P), either below a
\* frame that installed a handler (with a frame owning a resource in
\* between) or with no handler on the stack.  panic() transmutes the box and
\* builds `ptrs` and `ptrs_ptr` on its stack frame.
Transmute(t) ==
    /\ ~aborted
    /\ pc[t] \in {"idle", "resumed"}
    /\ throws < MaxThrows
    /\ \E P \in Payloads(target), h \in BOOLEAN :
          /\ data' = [data EXCEPT ![t] = P]
          /\ handler' = [handler EXCEPT ![t] = h]
          /\ mem' = (PtrsPtrLoc(t) :> PtrsLoc(t)) @@
                    (PtrsLoc(t) :> Flatten(P)) @@ mem
    /\ throws' = throws + 1
    /\ pc' = [pc EXCEPT ![t] = "store"]
    /\ stores_done' = [stores_done EXCEPT ![t] = 0]
    /\ raised' = [raised EXCEPT ![t] = NoArgs]
    /\ cleanups' = [cleanups EXCEPT ![t] = 0]
    /\ decodes' = [decodes EXCEPT ![t] = 0]
    /\ payload' = [payload EXCEPT ![t] = payload0]
    /\ caught' = [caught EXCEPT ![t] = NoBox]
    /\ UNCHANGED <<target, image, statics, nstores, initialized, aborted, ret>>

\* panic(): the next atomic_store of this call
AtomicStore(t) ==
    /\ ~aborted
    /\ pc[t] = "store"
    /\ LET i == stores_done[t] + 1
           v == Cast(ptr(target, image,
                         AddrOf(target, image, Stores[i].src)), U32Limbs)
       IN /\ statics' = StoreAt(statics, Stores[i], v)
          /\ stores_done' = [stores_done EXCEPT ![t] = i]
          /\ pc' = [pc EXCEPT ![t] =
                        IF i = Len(Stores) THEN "raise" ELSE "store"]
    /\ nstores' = nstores + 1
    /\ initialized' = (initialized \/ stores_done[t] + 1 = Len(Stores))
    /\ UNCHANGED <<target, image, aborted, throws, handler, data, mem, raised,
                   ret, cleanups, decodes, payload, caught>>

\* panic(): c::_CxxThrowException(&mut ptrs_ptr, &mut THROW_INFO), which
\* starts the unwind when a handler is on the stack
RaiseUnwinds(t) ==
    /\ ~aborted
    /\ pc[t] = "raise"
    /\ handler[t]
    /\ raised' = [raised EXCEPT ![t] = RaiseArgs(t)]
    /\ pc' = [pc EXCEPT ![t] = "unwind"]
    /\ UNCHANGED <<target, image, statics, nstores, initialized, aborted, throws, handler,
                   data, mem, stores_done, ret, cleanups, decodes, payload,
                   caught>>

\* the same call with no handler on the stack, when the facility gives
\* control back to panic()
RaiseReturns(t) ==
    /\ ~aborted
    /\ pc[t] = "raise"
    /\ ~handler[t]
    /\ raised' = [raised EXCEPT ![t] = RaiseArgs(t)]
    /\ pc' = [pc EXCEPT ![t] = "raise_returned"]
    /\ UNCHANGED <<target, image, statics, nstores, initialized, aborted, throws, handler,
                   data, mem, stores_done, ret, cleanups, decodes, payload,
                   caught>>

\* the same call with no handler on the stack, when the C++ runtime
\* terminates the process
RaiseTerminates(t) ==
    /\ ~aborted
    /\ pc[t] = "raise"
    /\ ~handler[t]
    /\ raised' = [raised EXCEPT ![t] = RaiseArgs(t)]
    /\ aborted' = TRUE
    /\ pc' = [pc EXCEPT ![t] = "terminated"]
    /\ UNCHANGED <<target, image, statics, nstores, initialized, throws, handler, data,
                   mem, stores_done, ret, cleanups, decodes, payload, caught>>

\* panic(): u32::max_value() after the call came back
Return(t) ==
    /\ ~aborted
    /\ pc[t] = "raise_returned"
    /\ ret' = [ret EXCEPT ![t] = u32_max_value]
    /\ pc' = [pc EXCEPT ![t] = "returned"]
    /\ UNCHANGED <<target, image, statics, nstores, initialized, aborted, throws, handler,
                   data, mem, stores_done, raised, cleanups, decodes,
                   payload, caught>>

\* the runtime treats a returning panic() as fatal
Abort(t) ==
    /\ ~aborted
    /\ pc[t] = "returned"
    /\ aborted' = TRUE
    /\ UNCHANGED <<target, image, statics, nstores, initialized, pc, throws, handler,
                   data, mem, stores_done, raised, ret, cleanups, decodes,
                   payload, caught>>

\* the unwinder runs the cleanup of the frame between thrower and handler
RunCleanup(t) ==
    /\ ~aborted
    /\ pc[t] = "unwind"
    /\ cleanups' = [cleanups EXCEPT ![t] = @ + 1]
    /\ pc' = [pc EXCEPT ![t] = "catch"]
    /\ UNCHANGED <<target, image, statics, nstores, initialized, aborted, throws, handler,
                   data, mem, stores_done, raised, ret, decodes, payload,
                   caught>>

\* the catch site: the exception object is a pointer to two u64 words,
\* which are copied into the payload slot of the catching frame
CatchSite(t) ==
    /\ ~aborted
    /\ pc[t] = "catch"
    /\ payload' = [payload EXCEPT ![t] = mem[mem[raised[t].pExceptionObject]]]
    /\ pc' = [pc EXCEPT ![t] = "decode"]
    /\ UNCHANGED <<target, image, statics, nstores, initialized, aborted, throws, handler,
                   data, mem, stores_done, raised, ret, cleanups, decodes,
                   caught>>

\* the catching frame calls cleanup(payload) and hands the box on
Decode(t) ==
    /\ ~aborted
    /\ pc[t] = "decode"
    /\ caught' = [caught EXCEPT ![t] = cleanup(target, payload[t])]
    /\ decodes' = [decodes EXCEPT ![t] = @ + 1]
    /\ pc' = [pc EXCEPT ![t] = "handler"]
    /\ UNCHANGED <<target, image, statics, nstores, initialized, aborted, throws, handler,
                   data, mem, stores_done, raised, ret, cleanups, payload>>

\* the handler is done: panic()'s frame is gone, execution goes on
Resume(t) ==
    /\ ~aborted
    /\ pc[t] = "handler"
    /\ mem' = [l \in DOMAIN mem \ {PtrsLoc(t), PtrsPtrLoc(t)} |-> mem[l]]
    /\ pc' = [pc EXCEPT ![t] = "resumed"]
    /\ UNCHANGED <<target, image, statics, nstores, initialized, aborted, throws, handler,
                   data, stores_done, raised, ret, cleanups, decodes,
                   payload, caught>>

Next ==
    \E t \in Threads :
        \/ Transmute(t)
        \/ AtomicStore(t)
        \/ RaiseUnwinds(t)
        \/ RaiseReturns(t)
        \/ RaiseTerminates(t)
        \/ Return(t)
        \/ Abort(t)
        \/ RunCleanup(t)
        \/ CatchSite(t)
        \/ Decode(t)
        \/ Resume(t)

Spec == Init /\ [][Next]_vars

\* =================================================================== claims

\* The five lazily linked reference fields and the static each must refer to.
Links ==
    { [obj |-> "THROW_INFO", field |-> "pCatchableTypeArray", idx |-> 0,
       src |-> "CATCHABLE_TYPE_ARRAY"],
      [obj |-> "CATCHABLE_TYPE_ARRAY", field |-> "arrayOfCatchableTypes",
       idx |-> 1, src |-> "CATCHABLE_TYPE1"],
      [obj |-> "CATCHABLE_TYPE_ARRAY", field |-> "arrayOfCatchableTypes",
       idx |-> 2, src |-> "CATCHABLE_TYPE2"],
      [obj |-> "CATCHABLE_TYPE1", field |-> "pType", idx |-> 0,
       src |-> "TYPE_DESCRIPTOR1"],
      [obj |-> "CATCHABLE_TYPE2", field |-> "pType", idx |-> 0,
       src |-> "TYPE_DESCRIPTOR2"] }

\* the field resolves to the address of its intended target
ResolvesToTarget(s, l) ==
    Resolve(target, image, FieldOf(s, l)) = AddrOf(target, image, l.src)

\* the two wire words of a boxed payload
WireWords(P) ==
    <<[i \in 1..4 |-> IF i <= Len(P.data) THEN P.data[i] ELSE 0],
      [i \in 1..4 |-> IF i <= Len(P.vtable) THEN P.vtable[i] ELSE 0]>>

\* C1: whenever a thread is about to call, or has called, the raise
\* facility, all five lazily linked fields are non-zero and resolve to their
\* intended targets, whatever the other threads are doing.
C1_LinkedBeforeRaise ==
    (\E t \in Threads : pc[t] = "raise" \/ raised[t] # NoArgs) =>
        \A l \in Links :
            /\ FieldOf(statics, l) # <<0, 0>>
            /\ ResolvesToTarget(statics, l)

\* one thread is at the raise call while another is in the middle of its
\* own stores
C1_Witness ==
    \E t1, t2 \in Threads :
        /\ t1 # t2
        /\ pc[t1] = "raise"
        /\ pc[t2] = "store"
        /\ stores_done[t2] \in 1..4

\* C2 (as claimed): once initialization has completed, no call of panic()
\* writes to the Exception Descriptor Set any more.
C2_NoWriteAfterInit ==
    [][initialized => nstores' = nstores]_vars

\* C2 (amended): once some panic() call has executed all of its stores, the
\* contents of the Exception Descriptor Set never change again, although
\* every call goes on storing to it.
C2_ContentsFixedAfterInit ==
    [][initialized => statics' = statics]_vars

\* a thread that completed a call is storing again in its next call,
\* while no other thread has called panic() at all
C2_Witness ==
    \E t \in Threads :
        /\ initialized
        /\ pc[t] = "store"
        /\ stores_done[t] >= 1
        /\ \A u \in Threads \ {t} : pc[u] = "idle"

\* C3: on both targets, cleanup() applied to the two words panic() put in
\* `ptrs` gives back the data pointer and the vtable pointer of the payload.
C3_RoundTrip ==
    \A t \in Threads :
        pc[t] \in {"store", "raise", "unwind", "catch", "raise_returned",
                   "returned", "terminated"} =>
            LET words == mem[mem[[frame |-> t, local |-> "ptrs_ptr"]]]
            IN /\ cleanup(target, words).data = data[t].data
               /\ cleanup(target, words).vtable = data[t].vtable

\* a 64-bit payload whose pointers have bits above the low 32 was flattened
C3_Witness ==
    \E t \in Threads :
        /\ target = "x86_64"
        /\ pc[t] = "store"
        /\ data[t].data[4] # 0
        /\ data[t].vtable[3] # 0

\* C4: on both targets, once a panic() call has linked the set, each of the
\* five reference fields resolves, by the target's convention, to the
\* address of its intended target.
C4_FieldsResolve ==
    initialized =>
        \A l \in Links :
            (IF target = "x86" THEN FieldOf(statics, l)
             ELSE WAdd(image.ImageBase,
                       FieldOf(statics, l) \o <<0, 0>>))
                = AddrOf(target, image, l.src)

\* linked on the wide target with an image base whose sum with the offsets
\* carries into the upper half of the address
C4_Witness ==
    /\ initialized
    /\ target = "x86_64"
    /\ image.ImageBase[2] = 65535

C6_SentinelReturn ==
    \A t \in Threads :
        /\ pc[t] = "returned" => ret[t] = <<65535, 65535>>
        /\ ret[t] # NoValue =>
              /\ ret[t] = <<65535, 65535>>
              /\ raised[t] # NoArgs
              /\ pc[t] = "returned"

\* the raise call came back and panic() returned
C6_Witness ==
    \E t \in Threads : pc[t] = "returned" /\ ret[t] # NoValue

\* C7: in a throw below a handler, the intervening cleanup has run exactly
\* once when the catch site executes, cleanup() is called exactly once, the
\* handler gets a value equal to the payload, execution resumes, and the
\* throw neither returns nor terminates the process.
C7_ThrowCatchCycle ==
    /\ \A t \in Threads :
          /\ pc[t] = "unwind" => cleanups[t] = 0 /\ decodes[t] = 0
          /\ pc[t] \in {"catch", "decode"} =>
                cleanups[t] = 1 /\ decodes[t] = 0
          /\ pc[t] \in {"handler", "resumed"} =>
                /\ cleanups[t] = 1
                /\ decodes[t] = 1
                /\ caught[t] = data[t]
          /\ handler[t] =>
                pc[t] \notin {"raise_returned", "returned", "terminated"}
    /\ aborted =>
          \E u \in Threads :
              ~handler[u] /\ pc[u] \in {"returned", "terminated"}

\* a thread went through the whole cycle and resumed after its handler
C7_Witness ==
    \E t \in Threads :
        /\ pc[t] = "resumed"
        /\ handler[t]
        /\ caught[t] = data[t]
        /\ ~aborted

\* C8: each of the five fields always holds 0 or the one value that
\* resolves to its intended target, and once it is non-zero no store
\* changes it.
C8_IdenticalWrites ==
    /\ [](\A l \in Links :
             \/ FieldOf(statics, l) = <<0, 0>>
             \/ ResolvesToTarget(statics, l))
    /\ [][\A l \in Links :
             FieldOf(statics, l) # <<0, 0>> =>
                 FieldOf(statics', l) = FieldOf(statics, l)]_vars

\* two threads are both part-way through their stores: the first two
\* fields have been stored by both of them
C8_Witness ==
    \E t1, t2 \in Threads :
        /\ t1 # t2
        /\ pc[t1] = "store" /\ stores_done[t1] >= 2
        /\ pc[t2] = "store" /\ stores_done[t2] >= 2

\* C9: whatever panic() calls have run, the unused reference fields are
\* null and the scalar fields and both type descriptors have their initial
\* values.
C9_Frame ==
    /\ DOMAIN statics = Statics
    /\ statics.THROW_INFO.attribues = 0
    /\ statics.THROW_INFO.pnfnUnwind = <<0, 0>>
    /\ statics.THROW_INFO.pForwardCompat = <<0, 0>>
    /\ statics.CATCHABLE_TYPE_ARRAY.nCatchableTypes = 2
    /\ Len(statics.CATCHABLE_TYPE_ARRAY.arrayOfCatchableTypes) = 2
    /\ \A c \in {"CATCHABLE_TYPE1", "CATCHABLE_TYPE2"} :
          /\ statics[c].properties = 1
          /\ statics[c].thisDisplacement =
                [mdisp |-> 0, pdisp |-> -1, vdisp |-> 0]
          /\ statics[c].sizeOrOffset = (IF target = "x86" THEN 4 ELSE 8)
          /\ statics[c].copy_function = <<0, 0>>
    /\ statics.TYPE_DESCRIPTOR1 = InitStatics(target).TYPE_DESCRIPTOR1
    /\ statics.TYPE_DESCRIPTOR2 = InitStatics(target).TYPE_DESCRIPTOR2
    /\ statics.TYPE_DESCRIPTOR1.name # statics.TYPE_DESCRIPTOR2.name

\* several panic() calls have run all their stores
C9_Witness ==
    /\ initialized
    /\ nstores >= 10

\* C10: the words reachable from a thread's raise arguments are the words
\* of that thread's own payload for as long as its frame is live, and so
\* are the words its catch site copies and decodes.
C10_PayloadIsolation ==
    \A t \in Threads :
        /\ pc[t] \in {"store", "raise"} =>
              mem[mem[[frame |-> t, local |-> "ptrs_ptr"]]] =
                  WireWords(data[t])
        /\ pc[t] \in {"unwind", "catch", "raise_returned", "returned",
                      "terminated"} =>
              mem[mem[raised[t].pExceptionObject]] = WireWords(data[t])
        /\ pc[t] \in {"decode", "handler", "resumed"} =>
              payload[t] = WireWords(data[t])

\* two threads with different payloads are both between their raise call
\* and their catch site
C10_Witness ==
    \E t1, t2 \in Threads :
        /\ t1 # t2
        /\ data[t1] # NoBox /\ data[t2] # NoBox
        /\ data[t1] # data[t2]
        /\ pc[t1] \in {"unwind", "catch"}
        /\ pc[t2] \in {"unwind", "catch"}

====
